---- MODULE Spec2Model ----
(***************************************************************************)
(* Food-price dashboard: the query layer of src/lib/db.ts (catalog,        *)
(* positional filter resolution, overview statistics, per-province         *)
(* averages), the /api/overview route, and the client-side trend           *)
(* deduplication of src/app/components/HomePage.tsx.                       *)
(*                                                                         *)
(* Values.  SQL NULL / JS null is NULL, JS undefined is UNDEF, names are   *)
(* strings ordered by Collation (SQLite BINARY collation).  A price is a   *)
(* record: k = "num" (a number v), k = "null" (SQL NULL) or k = "text" (a  *)
(* text that does not look like a number, e.g. 'n/a').  A date is a day    *)
(* number, DateNull standing for a NULL date.  A mean is an exact fraction *)
(* n/d in lowest terms, or k = "null".                                     *)
(***************************************************************************)
EXTENDS Integers, Sequences, FiniteSets, TLC

VARIABLES store, resp, prices, provinceId, districtId, itemName, deduplicatedPrices,
          seen, run,
          storeKm, dbCache, dbFiles, calls,
          provinceList, items, overview, averages, loading, currentLocale, pending, last,
          followed

hostVars == <<storeKm, dbCache, dbFiles, calls>>
clientVars == <<provinceList, items, overview, averages, loading, currentLocale, pending, last,
                followed>>
vars == <<store, resp, prices, provinceId, districtId, itemName, deduplicatedPrices, seen, run,
          hostVars, clientVars>>
dbVars == <<store, resp>>
pageVars == <<prices, provinceId, districtId, itemName, deduplicatedPrices>>
auxVars == <<seen, run, hostVars, clientVars>>

-----------------------------------------------------------------------------
(* Bounds *)

MaxRows == 3
MaxId == 2
MaxPrices == 3
MaxCalls == 3
MaxInFlight == 2
DefaultLimit == 200
NoLimit == -1

-----------------------------------------------------------------------------
(* Values *)

NULL == "<null>"
UNDEF == "<undefined>"
DateNull == 0

Collation == <<"", "A", "B", "Fish", "KG", "L", "M1", "M2", "Rice", "X", "Y", "cereals", "meat">>

\* the order of String.prototype.localeCompare on the same names
LocaleCollation == <<"", "A", "B", "cereals", "Fish", "KG", "L", "M1", "M2", "meat", "Rice", "X", "Y">>

LocaleRank(s) == IF s = NULL THEN 0 ELSE CHOOSE i \in 1..Len(LocaleCollation) : LocaleCollation[i] = s

Rank(s) == IF s = NULL THEN 0 ELSE CHOOSE i \in 1..Len(Collation) : Collation[i] = s

RankBase == Len(Collation) + 1

Truthy(s) == s # NULL /\ s # UNDEF /\ s # ""

PNum(n) == [k |-> "num", v |-> n]
PNull == [k |-> "null", v |-> 0]
PText == [k |-> "text", v |-> 0]

AvgNull == [k |-> "null", n |-> 0, d |-> 1]

RECURSIVE GCD(_, _)
GCD(a, b) == IF b = 0 THEN a ELSE GCD(b, a % b)

Ratio(n, d) == LET g == GCD(n, d) IN [k |-> "num", n |-> n \div g, d |-> d \div g]

RECURSIVE SortedBy(_, _)
SortedBy(S, key) ==
  IF S = {} THEN <<>>
  ELSE LET m == CHOOSE x \in S : \A y \in S : key[x] <= key[y]
       IN <<m>> \o SortedBy(S \ {m}, key)

At(seq, i) == IF i \in 1..Len(seq) THEN seq[i] ELSE UNDEF

Range(seq) == {seq[i] : i \in 1..Len(seq)}

-----------------------------------------------------------------------------
(* Observation store: the rows of the price table, rowid = position *)

Obs(d, a1, a2, m, c, p) ==
  [date |-> d, admin1 |-> a1, admin2 |-> a2, market |-> m,
   category |-> IF c = "Fish" THEN "meat" ELSE "cereals",
   commodity |-> c, unit |-> "KG", price |-> p]

AggRows ==
  { Obs(1, "A", "X", "M1", "Rice", PNum(100)),
    Obs(1, "A", "X", "M1", "Rice", PText),
    Obs(1, "A", "X", "M1", "Rice", PNull),
    Obs(1, "B", "X", "M1", "Rice", PNum(100)),
    Obs(2, "B", "X", "M2", "Rice", PNum(200)),
    Obs(1, "B", "X", "M1", "Fish", PNum(100)),
    Obs(1, "A", "X", "M2", "Fish", PNum(200)),
    Obs(1, NULL, "X", "M1", "Rice", PNum(100)) }

LocRows ==
  { Obs(1, "A", "X", "M1", "Rice", PNum(100)),
    Obs(1, "A", "Y", "M1", "Rice", PNum(100)),
    Obs(1, "B", "Y", "M1", "Rice", PNum(100)),
    Obs(1, "B", "X", "M1", "Fish", PNum(100)),
    Obs(1, "", "X", "M1", "Rice", PNum(100)),
    Obs(1, "A", "", "M1", "Rice", PNum(100)),
    Obs(1, NULL, "X", "M1", "Rice", PNum(100)),
    Obs(1, "B", NULL, "M1", "Rice", PNum(100)) }

\* a row of the table with its own unit and category
Listing(a1, a2, c, u, cat) ==
  [date |-> 1, admin1 |-> a1, admin2 |-> a2, market |-> "M1",
   category |-> cat, commodity |-> c, unit |-> u, price |-> PNum(100)]

\* one item in two units, one item in two categories, a missing item name,
\* an empty province name
ItemRows ==
  { Listing("A", "X", "Rice", "KG", "cereals"),
    Listing("A", "Y", "Rice", "L", "cereals"),
    Listing("B", "X", "Fish", "KG", "meat"),
    Listing("B", "Y", "Fish", "KG", "cereals"),
    Listing("A", "X", NULL, "KG", "cereals"),
    Listing("", "X", "Fish", "KG", "meat") }

FreshRows ==
  { Listing("A", "X", "Rice", "KG", "cereals"),
    Listing("A", "Y", "Rice", "L", "cereals"),
    Listing("B", "Y", "Fish", "KG", "meat") }

FaultRows ==
  { Obs(1, "A", "X", "M1", "Rice", PNum(100)),
    Obs(2, "B", "Y", "M2", "Fish", PNum(200)) }

\* rows with two dates and a missing date, two markets and a missing market,
\* a missing commodity
QueryRows ==
  { Obs(1, "A", "X", "M1", "Rice", PNum(100)),
    Obs(2, "A", "X", "M2", "Rice", PNum(100)),
    Obs(DateNull, "A", "X", "M1", "Rice", PNum(100)),
    Obs(2, "A", "X", "M1", NULL, PNum(100)),
    Obs(1, "A", "X", NULL, "Fish", PNum(100)),
    Obs(2, "B", "X", "M1", "Fish", PNum(100)) }

Ids == 0..MaxId
\* limit: undefined, or a positive number as the routes pass
Limits == {NoLimit, 1, 2}
ItemArgs == {UNDEF, "Rice", "Fish"}

Rows(db) == 1..Len(db)

-----------------------------------------------------------------------------
(* Catalog lookups *)

provinceLookup(db) ==
  SortedBy({db[i].admin1 : i \in {j \in Rows(db) : db[j].admin1 # NULL}},
           [s \in {db[i].admin1 : i \in Rows(db)} |-> Rank(s)])

districtLookup(db) ==
  LET S == {<<db[i].admin1, db[i].admin2>> : i \in {j \in Rows(db) : db[j].admin2 # NULL}}
  IN SortedBy(S, [pr \in S |-> Rank(pr[1]) * RankBase + Rank(pr[2])])

FilterPairs(seq, a1) == SelectSeq(seq, LAMBDA pr : pr[1] = a1)

\* a catalog kept from the time the table had its first row
getFiltersProvincesKept(db) ==
  LET old == IF db = <<>> THEN db ELSE SubSeq(db, 1, 1)
      provinces == provinceLookup(old)
  IN [idx \in 1..Len(provinces) |-> [id |-> idx, name |-> provinces[idx], districts |-> <<>>]]

getFiltersProvinces(db) ==
  LET provinces == provinceLookup(db)
      S == {<<db[i].admin1, db[i].admin2>> :
              i \in {j \in Rows(db) : db[j].admin1 # NULL /\ db[j].admin2 # NULL}}
      districts == SortedBy(S, [pr \in S |-> Rank(pr[1]) * RankBase + Rank(pr[2])])
  IN [idx \in 1..Len(provinces) |->
        [id |-> idx, name |-> provinces[idx],
         districts |-> LET ds == FilterPairs(districts, provinces[idx])
                       IN [dIdx \in 1..Len(ds) |-> [id |-> dIdx, name |-> ds[dIdx][2]]]]]

-----------------------------------------------------------------------------
(* Query Filter Builder: the conditions/values each function builds.      *)
(* A term that is not pushed is UNDEF.                                     *)

Pred(p, d, c) == [province |-> p, district |-> d, commodity |-> c]

ProvinceTerm(db, pId) ==
  IF pId # 0
  THEN LET province == At(provinceLookup(db), pId)
       IN IF Truthy(province) THEN province ELSE UNDEF
  ELSE UNDEF

DistrictValue(ds, dId) ==
  IF dId \in 1..Len(ds) /\ Truthy(ds[dId][2]) THEN ds[dId][2] ELSE UNDEF

ItemTerm(item) == IF Truthy(item) THEN item ELSE UNDEF

getPriceRowsDistrictTerm(db, pId, dId) ==
  IF dId # 0 /\ pId # 0
  THEN LET province == At(provinceLookup(db), pId)
           districtsForProvince ==
             IF Truthy(province) THEN FilterPairs(districtLookup(db), province)
             ELSE districtLookup(db)
       IN DistrictValue(districtsForProvince, dId)
  ELSE UNDEF

getOverviewDistrictTerm(db, pId, dId) ==
  IF dId # 0 /\ pId # 0
  THEN LET province == At(provinceLookup(db), pId)
       IN DistrictValue(FilterPairs(districtLookup(db), province), dId)
  ELSE UNDEF

getItemsByLocationDistrictTerm(db, pId, dId) ==
  IF dId # 0 /\ pId # 0
  THEN LET province == At(provinceLookup(db), pId)
       IN DistrictValue(FilterPairs(districtLookup(db), province), dId)
  ELSE UNDEF

getPriceRowsPredicate(db, pId, dId, item) ==
  Pred(ProvinceTerm(db, pId), getPriceRowsDistrictTerm(db, pId, dId), ItemTerm(item))

getOverviewPredicate(db, pId, dId, item) ==
  Pred(ProvinceTerm(db, pId), getOverviewDistrictTerm(db, pId, dId), ItemTerm(item))

getItemsByLocationPredicate(db, pId, dId) ==
  Pred(ProvinceTerm(db, pId), getItemsByLocationDistrictTerm(db, pId, dId), UNDEF)

Matches(r, pred) ==
  /\ pred.province = UNDEF \/ r.admin1 = pred.province
  /\ pred.district = UNDEF \/ r.admin2 = pred.district
  /\ pred.commodity = UNDEF \/ r.commodity = pred.commodity

Matching(db, pred) == {i \in Rows(db) : Matches(db[i], pred)}

-----------------------------------------------------------------------------
(* Aggregates of SQLite over a set I of rowids *)

RECURSIVE SumPrice(_, _)
SqlNumeric(price) == IF price.k = "num" THEN price.v ELSE 0

SumPrice(db, I) ==
  IF I = {} THEN 0
  ELSE LET i == CHOOSE x \in I : TRUE
       IN SqlNumeric(db[i].price) + SumPrice(db, I \ {i})

SqlAvgZeroWhenEmpty(db, I) ==
  LET nonNull == {i \in I : db[i].price.k # "null"}
  IN IF nonNull = {} THEN Ratio(0, 1)
     ELSE Ratio(SumPrice(db, nonNull), Cardinality(nonNull))

SqlAvgNullAsZero(db, I) ==
  IF I = {} THEN AvgNull ELSE Ratio(SumPrice(db, I), Cardinality(I))

SqlAvg(db, I) ==
  LET nonNull == {i \in I : db[i].price.k # "null"}
  IN IF nonNull = {} THEN AvgNull
     ELSE Ratio(SumPrice(db, nonNull), Cardinality(nonNull))

SqlMaxDate(db, I) ==
  LET ds == {db[i].date : i \in I} \ {DateNull}
  IN IF ds = {} THEN DateNull ELSE CHOOSE x \in ds : \A y \in ds : y <= x

SqlCountDistinctWithNull(S) == Cardinality(S)

SqlCountDistinct(S) == Cardinality(S \ {NULL})

Perms(S) ==
  {f \in [1..Cardinality(S) -> S] : \A i, j \in 1..Cardinality(S) : i # j => f[i] # f[j]}

TakeTail(seq, n) ==
  IF n < 0 \/ n >= Len(seq) THEN seq ELSE SubSeq(seq, Len(seq) - n + 1, Len(seq))

Take(seq, n) == IF n < 0 \/ n >= Len(seq) THEN seq ELSE SubSeq(seq, 1, n)

-----------------------------------------------------------------------------
(* The query functions of src/lib/db.ts *)

ItemEntries(db, I) ==
  LET J == {i \in I : db[i].commodity # NULL}
      Key(i) == <<db[i].commodity, db[i].unit, db[i].category>>
  IN {[id |-> CHOOSE m \in J : Key(m) = Key(i) /\ \A n \in J : Key(n) = Key(i) => m <= n,
       name |-> db[i].commodity, unit |-> db[i].unit, category |-> db[i].category] : i \in J}

ItemOrderKeyByName(e) == Rank(e.name)

ItemOrderKey(e) == Rank(e.category) * RankBase + Rank(e.name)

\* ORDER BY category, name: any order of the groups that respects the two keys
ItemListings(db, I) ==
  {f \in Perms(ItemEntries(db, I)) :
     \A i, j \in 1..Len(f) : i < j => ItemOrderKey(f[i]) <= ItemOrderKey(f[j])}

getFiltersResults(db) ==
  {[provinces |-> getFiltersProvinces(db), items |-> its] : its \in ItemListings(db, Rows(db))}

getItemsByLocationResults(db, pId, dId) ==
  ItemListings(db, Matching(db, getItemsByLocationPredicate(db, pId, dId)))

ToPriceRow(db, i) ==
  [id |-> i, item |-> db[i].commodity, category |-> db[i].category, unit |-> db[i].unit,
   price |-> db[i].price, date |-> db[i].date, province |-> db[i].admin1,
   district |-> db[i].admin2, market |-> db[i].market]

getPriceRows(db, pId, dId, item, limit) ==
  LET I == Matching(db, getPriceRowsPredicate(db, pId, dId, item))
      ordered == SortedBy(I, [i \in I |-> 0 - (db[i].date * (Len(db) + 1) + i)])
      lim == IF limit = NoLimit THEN DefaultLimit ELSE limit
      rows == Take(ordered, lim)
  IN [k \in 1..Len(rows) |-> ToPriceRow(db, rows[k])]

getOverview(db, pId, dId, item) ==
  LET I == Matching(db, getOverviewPredicate(db, pId, dId, item))
  IN [lastUpdated |-> SqlMaxDate(db, I),
      totalItems |-> SqlCountDistinct({db[i].commodity : i \in I}),
      totalMarkets |-> SqlCountDistinct({db[i].market : i \in I}),
      averagePrice |-> SqlAvg(db, I)]

\* a >= b in the order of ORDER BY ... DESC (NULL sorts below every number)
AvgLE(a, b) ==
  IF a.k = "null" THEN TRUE
  ELSE IF b.k = "null" THEN FALSE
  ELSE a.n * b.d <= b.n * a.d

AvgGE(a, b) ==
  IF b.k = "null" THEN TRUE
  ELSE IF a.k = "null" THEN FALSE
  ELSE a.n * b.d >= b.n * a.d

AveragesPredicateNoItem(item) == Pred(UNDEF, UNDEF, UNDEF)

AveragesPredicate(item) == Pred(UNDEF, UNDEF, ItemTerm(item))

ProvinceGroups(db, pred) ==
  LET I == Matching(db, pred)
  IN {[province |-> db[i].admin1,
       averagePrice |-> SqlAvg(db, {j \in I : db[j].admin1 = db[i].admin1})] : i \in I}

\* GROUP BY admin1 ORDER BY averagePrice DESC: groups of equal mean in any order
getAveragesByProvinceResults(db, item) ==
  {f \in Perms(ProvinceGroups(db, AveragesPredicate(item))) :
     \A i, j \in 1..Len(f) : i < j => AvgGE(f[i].averagePrice, f[j].averagePrice)}

-----------------------------------------------------------------------------
(* Requests against the store.  resp records the last completed call: its  *)
(* arguments, the predicate it built and the value it returned.            *)

NoPred == Pred(UNDEF, UNDEF, UNDEF)

Idle == [op |-> "idle", provinceId |-> 0, districtId |-> 0, itemName |-> UNDEF,
         limit |-> NoLimit, pred |-> NoPred, result |-> <<>>]

\* the call in progress: statements completed and executed, the outcome, and
\* whether dbCache holds the connection
NoRun == [op |-> "none", step |-> 0, executed |-> 0, status |-> "none", opened |-> FALSE,
          provinceId |-> 0, districtId |-> 0, itemName |-> UNDEF]

\* the reply before the last one, with the table as it was then
NoneSeen == [reply |-> Idle, store |-> <<>>]

Locales == {"en", "km"}

\* no connection
NoHandle == [path |-> "", serial |-> 0]

\* the database files are in place and nothing is open; the page shows nothing
HostIdle ==
  /\ storeKm = <<>>
  /\ dbCache = [l \in Locales |-> NoHandle]
  /\ dbFiles = Locales
  /\ calls = <<>>

NoSelection == [provinceId |-> 0, districtId |-> 0, itemName |-> UNDEF]

NoOverview == [lastUpdated |-> DateNull, totalItems |-> 0, totalMarkets |-> 0,
               averagePrice |-> AvgNull]

ClientIdle ==
  /\ provinceList = <<>>
  /\ items = <<>>
  /\ overview = NoOverview
  /\ averages = <<>>
  /\ loading = TRUE
  /\ currentLocale = "en"
  /\ pending = {}
  /\ last = [event |-> "none", shownFor |-> NoSelection]
  /\ followed = {}

AuxIdle ==
  /\ seen = NoneSeen
  /\ run = NoRun
  /\ HostIdle
  /\ ClientIdle

Reply(op, pId, dId, item, limit, pred, result) ==
  [op |-> op, provinceId |-> pId, districtId |-> dId, itemName |-> item,
   limit |-> limit, pred |-> pred, result |-> result]

\* better-sqlite3 is synchronous: a call runs to its return before the next
\* request, or a change of the table, is served
Return ==
  /\ resp # Idle
  /\ resp' = Idle
  /\ UNCHANGED <<store, pageVars, auxVars>>

Ingest(Dom) ==
  /\ resp = Idle
  /\ Len(store) < MaxRows
  /\ \E r \in Dom : store' = Append(store, r)
  /\ resp' = Idle
  /\ UNCHANGED <<pageVars, auxVars>>

IngestMeasurements == Ingest(AggRows)

IngestLocations == Ingest(LocRows)

IngestReadings == Ingest(QueryRows)

IngestListings == Ingest(ItemRows)

IngestFresh == Ingest(FreshRows)

CallGetFilters ==
  /\ resp = Idle
  /\ \E res \in getFiltersResults(store) :
        resp' = Reply("getFilters", 0, 0, UNDEF, NoLimit, NoPred, res)
  /\ UNCHANGED <<store, pageVars, auxVars>>

CallGetItemsByLocation ==
  /\ resp = Idle
  /\ \E pId \in Ids, dId \in Ids :
       \E res \in getItemsByLocationResults(store, pId, dId) :
          resp' = Reply("getItemsByLocation", pId, dId, UNDEF, NoLimit,
                        getItemsByLocationPredicate(store, pId, dId), res)
  /\ UNCHANGED <<store, pageVars, auxVars>>

CallGetPriceRows ==
  /\ resp = Idle
  /\ \E pId \in Ids, dId \in Ids, item \in ItemArgs, limit \in Limits :
        resp' = Reply("getPriceRows", pId, dId, item, limit,
                      getPriceRowsPredicate(store, pId, dId, item),
                      getPriceRows(store, pId, dId, item, limit))
  /\ UNCHANGED <<store, pageVars, auxVars>>

CallGetOverview ==
  /\ resp = Idle
  /\ \E pId \in Ids, dId \in Ids, item \in ItemArgs :
        resp' = Reply("getOverview", pId, dId, item, NoLimit,
                      getOverviewPredicate(store, pId, dId, item),
                      getOverview(store, pId, dId, item))
  /\ UNCHANGED <<store, pageVars, auxVars>>

CallGetAveragesByProvince ==
  /\ resp = Idle
  /\ \E item \in ItemArgs :
       \E res \in getAveragesByProvinceResults(store, item) :
          resp' = Reply("getAveragesByProvince", 0, 0, item, NoLimit,
                        AveragesPredicate(item), res)
  /\ UNCHANGED <<store, pageVars, auxVars>>

\* GET /api/overview?province=&district=&item=
OverviewGET ==
  /\ resp = Idle
  /\ \E pId \in Ids, dId \in Ids, item \in ItemArgs :
       \E avgs \in getAveragesByProvinceResults(store, item) :
          resp' = Reply("GET /api/overview", pId, dId, item, NoLimit,
                        getOverviewPredicate(store, pId, dId, item),
                        [overview |-> getOverview(store, pId, dId, item),
                         averages |-> avgs])
  /\ UNCHANGED <<store, pageVars, auxVars>>

\* GET /api/filters?province=&district=
FiltersGET ==
  /\ resp = Idle
  /\ \E pId \in Ids, dId \in Ids :
       \E filters \in getFiltersResults(store) :
          IF pId # 0 \/ dId # 0
          THEN \E filteredItems \in getItemsByLocationResults(store, pId, dId) :
                  resp' = Reply("GET /api/filters", pId, dId, UNDEF, NoLimit,
                                getItemsByLocationPredicate(store, pId, dId),
                                [provinces |-> filters.provinces, items |-> filteredItems])
          ELSE resp' = Reply("GET /api/filters", pId, dId, UNDEF, NoLimit, NoPred, filters)
  /\ UNCHANGED <<store, pageVars, auxVars>>

\* the reply is handed over and kept for comparison with the next one
ReturnCatalog ==
  /\ resp # Idle
  /\ seen' = [reply |-> resp, store |-> store]
  /\ resp' = Idle
  /\ UNCHANGED <<store, pageVars, run, hostVars, clientVars>>

PageIdle ==
  /\ prices = <<>>
  /\ provinceId = 0
  /\ districtId = 0
  /\ itemName = UNDEF
  /\ deduplicatedPrices = <<>>

InitDb ==
  /\ store = <<>>
  /\ resp = Idle
  /\ PageIdle
  /\ AuxIdle

NextAggregate ==
  \/ IngestMeasurements
  \/ CallGetOverview
  \/ CallGetAveragesByProvince
  \/ OverviewGET
  \/ Return

SpecAggregate == InitDb /\ [][NextAggregate]_vars

NextCatalog ==
  \/ IngestLocations
  \/ CallGetFilters
  \/ CallGetItemsByLocation
  \/ CallGetPriceRows
  \/ CallGetOverview
  \/ Return

SpecCatalog == InitDb /\ [][NextCatalog]_vars

NextQuery ==
  \/ IngestReadings
  \/ CallGetPriceRows
  \/ CallGetOverview
  \/ Return

SpecQuery == InitDb /\ [][NextQuery]_vars

NextItems ==
  \/ IngestListings
  \/ CallGetFilters
  \/ CallGetItemsByLocation
  \/ FiltersGET
  \/ Return

SpecItems == InitDb /\ [][NextItems]_vars

NextFresh ==
  \/ IngestFresh
  \/ CallGetFilters
  \/ CallGetItemsByLocation
  \/ ReturnCatalog

SpecFresh == InitDb /\ [][NextFresh]_vars

-----------------------------------------------------------------------------
(* Failures of the store.  Each function of src/lib/db.ts is a sequence of  *)
(* statements against the store; none of them is inside a try block.       *)

Statements(op) ==
  CASE op = "getFilters" -> <<"getDb", "getTableName", "provinces", "districts", "items">>
    [] op = "getItemsByLocation" ->
         <<"getDb", "getTableName", "provinceLookup", "districtLookup", "items">>
    [] op = "getPriceRows" ->
         <<"getDb", "getTableName", "provinceLookup", "districtLookup", "rows">>
    [] op = "getOverview" ->
         <<"getDb", "getTableName", "provinceLookup", "districtLookup",
           "lastUpdated", "totalItems", "totalMarkets", "averagePrice">>
    [] op = "getAveragesByProvince" -> <<"getDb", "getTableName", "averages">>
    [] OTHER -> <<>>

StoreOps ==
  {"getFilters", "getItemsByLocation", "getPriceRows", "getOverview", "getAveragesByProvince"}

\* the arguments each function takes
ArgsOf(op) ==
  IF op \in {"getPriceRows", "getOverview"} THEN Ids \X Ids \X ItemArgs
  ELSE IF op = "getItemsByLocation" THEN Ids \X Ids \X {UNDEF}
  ELSE IF op = "getAveragesByProvince" THEN {0} \X {0} \X ItemArgs
  ELSE {<<0, 0, UNDEF>>}

\* a caught failure whose statement is run again
onFailureRetry(r) == [r EXCEPT !.executed = @ + 1]

\* an exception leaves the function at the failing statement
onFailure(r) == [r EXCEPT !.executed = @ + 1, !.status = "thrown"]

onSuccess(r) == [r EXCEPT !.executed = @ + 1, !.step = @ + 1, !.opened = TRUE]

Begin ==
  /\ resp = Idle
  /\ run.status # "running"
  /\ \E op \in StoreOps :
       \E args \in ArgsOf(op) :
          run' = [run EXCEPT !.op = op, !.step = 0, !.executed = 0, !.status = "running",
                             !.provinceId = args[1], !.districtId = args[2],
                             !.itemName = args[3]]
  /\ UNCHANGED <<store, resp, pageVars, seen, hostVars, clientVars>>

\* the next statement runs; getDb cannot fail once dbCache holds the connection
Execute ==
  /\ run.status = "running"
  /\ run.step < Len(Statements(run.op))
  /\ \E ok \in BOOLEAN :
        IF ok \/ (Statements(run.op)[run.step + 1] = "getDb" /\ run.opened)
        THEN run' = onSuccess(run)
        ELSE run' = onFailure(run)
  /\ UNCHANGED <<store, resp, pageVars, seen, hostVars, clientVars>>

ResultsOf(r) ==
  CASE r.op = "getFilters" -> getFiltersResults(store)
    [] r.op = "getItemsByLocation" -> getItemsByLocationResults(store, r.provinceId, r.districtId)
    [] r.op = "getPriceRows" ->
         {getPriceRows(store, r.provinceId, r.districtId, r.itemName, NoLimit)}
    [] r.op = "getOverview" -> {getOverview(store, r.provinceId, r.districtId, r.itemName)}
    [] r.op = "getAveragesByProvince" -> getAveragesByProvinceResults(store, r.itemName)

\* the return statement after the last query
Complete ==
  /\ run.status = "running"
  /\ run.step = Len(Statements(run.op))
  /\ \E res \in ResultsOf(run) :
        resp' = Reply(run.op, run.provinceId, run.districtId, run.itemName, NoLimit, NoPred, res)
  /\ run' = [run EXCEPT !.status = "returned"]
  /\ UNCHANGED <<store, pageVars, seen, hostVars, clientVars>>

IngestBetweenCalls ==
  /\ run.status # "running"
  /\ Ingest(FaultRows)

NextFault ==
  \/ IngestBetweenCalls
  \/ Begin
  \/ Execute
  \/ Complete
  \/ Return

SpecFault == InitDb /\ [][NextFault]_vars

-----------------------------------------------------------------------------
(* getDb and the process-wide dbCache.  calls is the log of the calls of    *)
(* getDb made so far: the locale passed, the outcome, the handle returned  *)
(* and whether the call opened the database.                                *)

LocaleArgs == {UNDEF, "en", "km", "fr"}

validLocale(locale) == IF locale = "km" THEN "km" ELSE "en"

Handle(path, serial) == [path |-> path, serial |-> serial]

\* the open whose handle is not kept
getDbOpenUncached(cache, l, h) == cache

\* dbCache[validLocale] = new Database(dbPath)
getDbOpen(cache, l, h) == [cache EXCEPT ![l] = h]

GetDb ==
  /\ Len(calls) < MaxCalls
  /\ \E locale \in LocaleArgs :
       LET l == validLocale(locale)
           h == Handle(l, Len(calls) + 1)
       IN IF dbCache[l] = NoHandle
          THEN IF l \notin dbFiles
               THEN /\ dbCache' = dbCache
                    /\ calls' = Append(calls, [locale |-> locale, outcome |-> "thrown",
                                               handle |-> NoHandle, opened |-> FALSE])
               ELSE /\ dbCache' = getDbOpen(dbCache, l, h)
                    /\ calls' = Append(calls, [locale |-> locale, outcome |-> "returned",
                                               handle |-> dbCache'[l], opened |-> TRUE])
          ELSE /\ dbCache' = dbCache
               /\ calls' = Append(calls, [locale |-> locale, outcome |-> "returned",
                                          handle |-> dbCache[l], opened |-> FALSE])
  /\ UNCHANGED <<dbVars, pageVars, seen, run, storeKm, dbFiles, clientVars>>

\* the deployment puts a database file in place, or takes it away
PlaceFile ==
  /\ \E l \in Locales \ dbFiles : dbFiles' = dbFiles \cup {l}
  /\ UNCHANGED <<dbVars, pageVars, seen, run, storeKm, dbCache, calls, clientVars>>

RemoveFile ==
  /\ \E l \in dbFiles : dbFiles' = dbFiles \ {l}
  /\ UNCHANGED <<dbVars, pageVars, seen, run, storeKm, dbCache, calls, clientVars>>

NextHandles ==
  \/ GetDb
  \/ PlaceFile
  \/ RemoveFile

SpecHandles == InitDb /\ [][NextHandles]_vars

-----------------------------------------------------------------------------
(* The three endpoints the page calls with ?locale=.  store is the database  *)
(* of locale en, storeKm the database of locale km.                         *)

LocaleRows ==
  { Obs(1, "A", "X", "M1", "Rice", PNum(100)),
    Obs(1, "B", "Y", "M1", "Fish", PNum(100)) }

RequestLocales == {"en", "km"}

\* getDb(locale) followed by the queries on that connection
storeOfLocale(locale) == IF validLocale(locale) = "km" THEN storeKm ELSE store

\* src/app/api/filters/route.ts calls getFilters() and getItemsByLocation({provinceId,
\* districtId}); src/app/api/overview/route.ts calls getOverview and
\* getAveragesByProvince without a locale: the default 'en' applies
filtersRouteStore(locale) == storeOfLocale("en")

overviewRouteStore(locale) == storeOfLocale("en")

\* the prices route passes searchParams.get("locale") || 'en'
pricesRouteStore(locale) == storeOfLocale(locale)

pricesRouteLimit(pId, dId, item) ==
  IF pId = 0 /\ ~Truthy(item) THEN 5000
  ELSE IF pId = 0 \/ dId = 0 THEN 1000
  ELSE 500

IngestEn == Ingest(LocaleRows)

IngestKm ==
  /\ resp = Idle
  /\ Len(storeKm) < MaxRows
  /\ \E r \in LocaleRows : storeKm' = Append(storeKm, r)
  /\ UNCHANGED <<dbVars, pageVars, seen, run, dbCache, dbFiles, calls, clientVars>>

\* GET /api/filters?locale=&province=&district=
FiltersRequest ==
  /\ resp = Idle
  /\ \E locale \in RequestLocales, pId \in Ids, dId \in Ids :
       LET db == filtersRouteStore(locale)
       IN \E filters \in getFiltersResults(db) :
             IF pId # 0 \/ dId # 0
             THEN \E filteredItems \in getItemsByLocationResults(db, pId, dId) :
                     resp' = [locale |-> locale]
                               @@ Reply("GET /api/filters", pId, dId, UNDEF, NoLimit,
                                        getItemsByLocationPredicate(db, pId, dId),
                                        [provinces |-> filters.provinces,
                                         items |-> filteredItems])
             ELSE resp' = [locale |-> locale]
                            @@ Reply("GET /api/filters", pId, dId, UNDEF, NoLimit, NoPred, filters)
  /\ UNCHANGED <<store, pageVars, auxVars>>

\* GET /api/overview?locale=&province=&district=&item=
OverviewRequest ==
  /\ resp = Idle
  /\ \E locale \in RequestLocales, pId \in Ids, dId \in Ids, item \in ItemArgs :
       LET db == overviewRouteStore(locale)
       IN \E avgs \in getAveragesByProvinceResults(db, item) :
             resp' = [locale |-> locale]
                       @@ Reply("GET /api/overview", pId, dId, item, NoLimit,
                                getOverviewPredicate(db, pId, dId, item),
                                [overview |-> getOverview(db, pId, dId, item),
                                 averages |-> avgs])
  /\ UNCHANGED <<store, pageVars, auxVars>>

\* GET /api/prices?locale=&province=&district=&item=
PricesRequest ==
  /\ resp = Idle
  /\ \E locale \in RequestLocales, pId \in Ids, dId \in Ids, item \in ItemArgs :
       LET db == pricesRouteStore(locale)
           limit == pricesRouteLimit(pId, dId, item)
       IN resp' = [locale |-> locale]
                    @@ Reply("GET /api/prices", pId, dId, item, limit,
                             getPriceRowsPredicate(db, pId, dId, item),
                             [data |-> getPriceRows(db, pId, dId, item, limit)])
  /\ UNCHANGED <<store, pageVars, auxVars>>

NextLocale ==
  \/ IngestEn
  \/ IngestKm
  \/ FiltersRequest
  \/ OverviewRequest
  \/ PricesRequest
  \/ Return

SpecLocale == InitDb /\ [][NextLocale]_vars

-----------------------------------------------------------------------------
(* HomePage: the selection state and the memoised deduplicatedPrices.      *)
(* React recomputes the memo in the render that follows every change of    *)
(* prices, provinceId, districtId or itemName.                             *)

Shown(item, prov, p) ==
  [item |-> item, category |-> IF item = "Fish" THEN "meat" ELSE "cereals", unit |-> "KG",
   price |-> p, date |-> 1, province |-> prov, district |-> "X", market |-> "M1"]

DedupRows ==
  { Shown("Rice", "A", PNum(100)),
    Shown("Rice", "B", PNum(150)),
    Shown("Rice", "A", PNum(150)),
    Shown("Rice", "B", PNum(0)),
    Shown("Rice", "A", PText),
    Shown("Rice", "B", PNull),
    Shown("Fish", "A", PNum(100)),
    Shown("Fish", "B", PNum(200)),
    Shown("Rice", "B", PNum(0 - 50)),
    Shown(NULL, "A", PNum(100)) }

\* a response body of /api/prices: rows with distinct ids, newest id first
PriceLists ==
  UNION {{[k \in 1..n |-> [id |-> n + 1 - k] @@ f[k]] : f \in [1..n -> DedupRows]} : n \in 0..MaxPrices}

isNonZeroPriceOrZero(price) == price.k = "num"

isNonZeroPrice(price) == price.k = "num" /\ price.v # 0

groupingModeItemFirst(pId, item) ==
  IF Truthy(item) THEN "food-only"
  ELSE IF pId = 0 THEN "no-filters"
  ELSE "province-selected"

groupingMode(pId, item) ==
  IF pId = 0 /\ ~Truthy(item) THEN "no-filters"
  ELSE IF pId = 0 /\ Truthy(item) THEN "food-only"
  ELSE "province-selected"

TemplateText(s) == IF s = NULL THEN "null" ELSE IF s = UNDEF THEN "undefined" ELSE s

groupKey(row, mode) ==
  IF mode = "food-only" THEN row.item \o "|||" \o TemplateText(row.province) ELSE row.item

RECURSIVE StableSortBy(_, _)
Insert(sorted, x, key) ==
  LET n == Cardinality({i \in 1..Len(sorted) : key[sorted[i]] <= key[x]})
  IN SubSeq(sorted, 1, n) \o <<x>> \o SubSeq(sorted, n + 1, Len(sorted))

StableSortBy(seq, key) ==
  IF seq = <<>> THEN <<>>
  ELSE Insert(StableSortBy(SubSeq(seq, 1, Len(seq) - 1), key), seq[Len(seq)], key)

\* the keys of itemGroups in Map insertion order
RECURSIVE itemGroupKeys(_, _)
itemGroupKeys(rows, mode) ==
  IF rows = <<>> THEN <<>>
  ELSE LET front == itemGroupKeys(SubSeq(rows, 1, Len(rows) - 1), mode)
           row == rows[Len(rows)]
       IN IF ~Truthy(row.item) THEN front
          ELSE IF groupKey(row, mode) \in Range(front) THEN front
          ELSE Append(front, groupKey(row, mode))

itemGroup(rows, mode, key) ==
  SelectSeq(rows, LAMBDA row : Truthy(row.item) /\ groupKey(row, mode) = key)

sortedByPriceUnsorted(rows) == rows

sortedByPriceAscending(rows) == StableSortBy(rows, [r \in Range(rows) |-> r.price.v])

sortedByPrice(rows) == StableSortBy(rows, [r \in Range(rows) |-> 0 - r.price.v])

trendOfInverted(latest, previous) ==
  IF latest.price.v > previous.price.v THEN "down"
  ELSE IF latest.price.v < previous.price.v THEN "up"
  ELSE "same"

trendOf(latest, previous) ==
  IF latest.price.v > previous.price.v THEN "up"
  ELSE IF latest.price.v < previous.price.v THEN "down"
  ELSE "same"

\* the row pushed for one group, or <<>> when the group has no non-zero price
groupResult(rows) ==
  LET nonZeroRows == SelectSeq(rows, LAMBDA row : isNonZeroPrice(row.price))
      sorted == sortedByPrice(nonZeroRows)
  IN IF Len(nonZeroRows) = 0 THEN <<>>
     ELSE IF Len(sorted) = 1
          THEN <<[previousPrice |-> PNull, trend |-> NULL] @@ sorted[1]>>
          ELSE <<[previousPrice |-> IF sorted[2].price.v # 0 THEN sorted[2].price ELSE PNull,
                  trend |-> trendOf(sorted[1], sorted[2])] @@ sorted[1]>>

RECURSIVE groupResults(_, _, _)
groupResults(rows, mode, keys) ==
  IF keys = <<>> THEN <<>>
  ELSE groupResult(itemGroup(rows, mode, keys[1])) \o groupResults(rows, mode, Tail(keys))

finalSortByName(result, mode) ==
  StableSortBy(result,
               [r \in Range(result) |-> LocaleRank(r.item) * RankBase + LocaleRank(r.province)])

finalSort(result, mode) ==
  IF mode = "food-only"
  THEN StableSortBy(result, [r \in Range(result) |-> 0 - r.price.v])
  ELSE StableSortBy(result,
                    [r \in Range(result) |-> LocaleRank(r.item) * RankBase + LocaleRank(r.province)])

computeDeduplicatedPrices(rows, pId, item) ==
  LET mode == groupingMode(pId, item)
  IN finalSort(groupResults(rows, mode, itemGroupKeys(rows, mode)), mode)

Render ==
  deduplicatedPrices' = computeDeduplicatedPrices(prices', provinceId', itemName')

ChangeProvince ==
  /\ \E nextProvince \in Ids :
        /\ provinceId' = nextProvince
        /\ districtId' = 0
  /\ UNCHANGED <<prices, itemName, dbVars, auxVars>>
  /\ Render

ChangeDistrict ==
  /\ provinceId # 0
  /\ \E value \in Ids : districtId' = value
  /\ UNCHANGED <<prices, provinceId, itemName, dbVars, auxVars>>
  /\ Render

ChangeItem ==
  /\ \E value \in ItemArgs : itemName' = value
  /\ UNCHANGED <<prices, provinceId, districtId, dbVars, auxVars>>
  /\ Render

InitDedup ==
  /\ store = <<>>
  /\ resp = Idle
  /\ prices \in PriceLists
  /\ provinceId = 0
  /\ districtId = 0
  /\ itemName = UNDEF
  /\ deduplicatedPrices = computeDeduplicatedPrices(prices, provinceId, itemName)
  /\ AuxIdle

NextDedup ==
  \/ ChangeProvince
  \/ ChangeDistrict
  \/ ChangeItem

SpecDedup == InitDedup /\ [][NextDedup]_vars

-----------------------------------------------------------------------------
(* The effects of HomePage.  pending holds the effect runs whose fetch has  *)
(* not been answered, each with the values its closure captured; last is   *)
(* the history of the last answer handled: what happened and for which     *)
(* selection the stored data was fetched.                                   *)

\* the table behind the page: province A (id 1) sells Fish, B (id 2) Rice
PageStore ==
  << Obs(1, "A", "X", "M1", "Fish", PNum(100)),
     Obs(1, "B", "Y", "M1", "Rice", PNum(200)),
     Obs(2, "A", "X", "M1", "Fish", PNum(150)) >>

Selection == [provinceId |-> provinceId, districtId |-> districtId, itemName |-> itemName]

SelectionOf(r) == [provinceId |-> r.provinceId, districtId |-> r.districtId,
                   itemName |-> r.itemName]

EffectRun(kind, pId, dId, item, locale) ==
  [kind |-> kind, provinceId |-> pId, districtId |-> dId, itemName |-> item, locale |-> locale]

\* options of the three selects
provinceOptions == {0} \cup {provinceList[k].id : k \in 1..Len(provinceList)}

filteredDistricts ==
  IF provinceId = 0 THEN <<>>
  ELSE LET found == {k \in 1..Len(provinceList) : provinceList[k].id = provinceId}
       IN IF found = {} THEN <<>> ELSE provinceList[CHOOSE k \in found : TRUE].districts

districtOptions == {0} \cup {filteredDistricts[k].id : k \in 1..Len(filteredDistricts)}

itemOptions == {UNDEF} \cup {items[k].name : k \in 1..Len(items)}

\* the effects whose dependency list holds a value that changed in the render
\* from the current state to (pId, dId, item, locale)
EffectsToRun(pId, dId, item, locale) ==
  (IF locale # currentLocale THEN {"loadFilters"} ELSE {})
    \cup (IF <<pId, dId, locale>> # <<provinceId, districtId, currentLocale>>
          THEN {"loadFilteredItems"} ELSE {})
    \cup (IF <<pId, dId, item, locale>> # <<provinceId, districtId, itemName, currentLocale>>
          THEN {"loadData"} ELSE {})

\* the runs started by that render, each closing over the values of the render;
\* followed holds the effects whose fetches this specification follows
StartedRuns(pId, dId, item, locale) ==
  {EffectRun(kind, pId, dId, item, locale) :
     kind \in (EffectsToRun(pId, dId, item, locale) \ {"loadFilters"}) \cap followed}
    \cup (IF "loadFilters" \in EffectsToRun(pId, dId, item, locale) \cap followed
          THEN {EffectRun("loadFilters", 0, 0, UNDEF, locale)} ELSE {})

\* loadData starts with setLoading(true)
LoadingAfter(pId, dId, item, locale) ==
  IF "loadData" \in EffectsToRun(pId, dId, item, locale) THEN TRUE ELSE loading

\* the province handler that leaves the district as it is
provinceChangeKeepsDistrict(nextProvince) ==
  [provinceId |-> nextProvince, districtId |-> districtId]

\* setProvinceId(nextProvince); setDistrictId(undefined)
provinceChange(nextProvince) == [provinceId |-> nextProvince, districtId |-> 0]

SelectProvince ==
  /\ \E nextProvince \in provinceOptions \ {provinceId} :
        LET next == provinceChange(nextProvince)
        IN /\ provinceId' = next.provinceId
           /\ districtId' = next.districtId
           /\ pending' = pending
                \cup StartedRuns(next.provinceId, next.districtId, itemName, currentLocale)
           /\ loading' = LoadingAfter(next.provinceId, next.districtId, itemName, currentLocale)
  /\ Cardinality(pending') <= MaxInFlight
  /\ UNCHANGED <<prices, itemName, dbVars, seen, run, hostVars,
                 provinceList, items, overview, averages, currentLocale, last, followed>>
  /\ Render

SelectDistrict ==
  /\ provinceId # 0
  /\ \E value \in districtOptions \ {districtId} :
        /\ districtId' = value
        /\ pending' = pending \cup StartedRuns(provinceId, value, itemName, currentLocale)
        /\ loading' = LoadingAfter(provinceId, value, itemName, currentLocale)
  /\ Cardinality(pending') <= MaxInFlight
  /\ UNCHANGED <<prices, provinceId, itemName, dbVars, seen, run, hostVars,
                 provinceList, items, overview, averages, currentLocale, last, followed>>
  /\ Render

SelectItem ==
  /\ \E value \in itemOptions \ {itemName} :
        /\ itemName' = value
        /\ pending' = pending \cup StartedRuns(provinceId, districtId, value, currentLocale)
        /\ loading' = LoadingAfter(provinceId, districtId, value, currentLocale)
  /\ Cardinality(pending') <= MaxInFlight
  /\ UNCHANGED <<prices, provinceId, districtId, dbVars, seen, run, hostVars,
                 provinceList, items, overview, averages, currentLocale, last, followed>>
  /\ Render

\* the language switcher: router.push to the other locale
SwitchLocale ==
  /\ \E locale \in RequestLocales \ {currentLocale} :
        /\ currentLocale' = locale
        /\ pending' = pending \cup StartedRuns(provinceId, districtId, itemName, locale)
        /\ loading' = LoadingAfter(provinceId, districtId, itemName, locale)
  /\ Cardinality(pending') <= MaxInFlight
  /\ UNCHANGED <<pageVars, dbVars, seen, run, hostVars,
                 provinceList, items, overview, averages, last, followed>>

\* a failure that wipes what is shown
onLoadDataFailureClears(shown) == [prices |-> <<>>, overview |-> NoOverview, averages |-> <<>>]

\* the return after a non-OK status and the catch block set nothing but loading
onLoadDataFailure(shown) == shown

\* both responses are OK: the three setters, then setLoading(false)
LoadDataDone ==
  /\ \E r \in {q \in pending : q.kind = "loadData"} :
       \E avgs \in getAveragesByProvinceResults(overviewRouteStore(r.locale), r.itemName) :
          /\ prices' = getPriceRows(pricesRouteStore(r.locale), r.provinceId, r.districtId,
                                    r.itemName,
                                    pricesRouteLimit(r.provinceId, r.districtId, r.itemName))
          /\ overview' = getOverview(overviewRouteStore(r.locale), r.provinceId, r.districtId,
                                     r.itemName)
          /\ averages' = avgs
          /\ pending' = pending \ {r}
          /\ last' = [event |-> "ok", shownFor |-> SelectionOf(r)]
  /\ loading' = FALSE
  /\ UNCHANGED <<provinceId, districtId, itemName, dbVars, seen, run, hostVars,
                 provinceList, items, currentLocale, followed>>
  /\ Render

\* a response is not OK, or a fetch rejects
LoadDataFails ==
  /\ \E r \in {q \in pending : q.kind = "loadData"}, event \in {"not-ok", "throws"} :
       LET kept == onLoadDataFailure([prices |-> prices, overview |-> overview,
                                      averages |-> averages])
       IN /\ prices' = kept.prices
          /\ overview' = kept.overview
          /\ averages' = kept.averages
          /\ pending' = pending \ {r}
          /\ last' = [last EXCEPT !.event = event]
  /\ loading' = FALSE
  /\ UNCHANGED <<provinceId, districtId, itemName, dbVars, seen, run, hostVars,
                 provinceList, items, currentLocale, followed>>
  /\ Render

\* loadFilters is answered: the catalog is stored and the selection reset in one batch
LoadFiltersDone ==
  /\ \E r \in {q \in pending : q.kind = "loadFilters"} :
       \E filters \in getFiltersResults(filtersRouteStore(r.locale)) :
          /\ provinceList' = filters.provinces
          /\ items' = filters.items
          /\ pending' = (pending \ {r}) \cup StartedRuns(0, 0, UNDEF, currentLocale)
  /\ provinceId' = 0
  /\ districtId' = 0
  /\ itemName' = UNDEF
  /\ loading' = LoadingAfter(0, 0, UNDEF, currentLocale)
  /\ last' = [last EXCEPT !.event = "filters-ok"]
  /\ UNCHANGED <<prices, dbVars, seen, run, hostVars, overview, averages, currentLocale,
                 followed>>
  /\ Render

\* the items of the location are stored; the item selection the run closed over
\* is reset when the new list does not hold it
LoadFilteredItemsDone ==
  /\ \E r \in {q \in pending : q.kind = "loadFilteredItems"} :
       LET db == filtersRouteStore(r.locale)
       IN \E listed \in (IF r.provinceId # 0 \/ r.districtId # 0
                         THEN getItemsByLocationResults(db, r.provinceId, r.districtId)
                         ELSE ItemListings(db, Rows(db))) :
             LET reset == /\ Truthy(r.itemName)
                          /\ r.itemName \notin {listed[k].name : k \in 1..Len(listed)}
                 item == IF reset THEN UNDEF ELSE itemName
             IN /\ items' = listed
                /\ itemName' = item
                /\ pending' = (pending \ {r})
                                \cup StartedRuns(provinceId, districtId, item, currentLocale)
                /\ loading' = LoadingAfter(provinceId, districtId, item, currentLocale)
  /\ last' = [last EXCEPT !.event = "items-ok"]
  /\ UNCHANGED <<prices, provinceId, districtId, dbVars, seen, run, hostVars,
                 provinceList, overview, averages, currentLocale, followed>>
  /\ Render

\* a filters response that is not OK, or a rejected fetch: logged, nothing set
FiltersFetchFails ==
  /\ \E r \in {q \in pending : q.kind \in {"loadFilters", "loadFilteredItems"}} :
        pending' = pending \ {r}
  /\ last' = [last EXCEPT !.event = "filters-failed"]
  /\ UNCHANGED <<pageVars, dbVars, seen, run, hostVars,
                 provinceList, items, overview, averages, loading, currentLocale, followed>>

\* the page after mount, the two filter fetches answered, loadData in flight
InitLoadData ==
  /\ store = PageStore
  /\ resp = Idle
  /\ prices = <<>>
  /\ provinceId = 0
  /\ districtId = 0
  /\ itemName = UNDEF
  /\ deduplicatedPrices = <<>>
  /\ seen = NoneSeen
  /\ run = NoRun
  /\ HostIdle
  /\ provinceList = getFiltersProvinces(PageStore)
  /\ items \in ItemListings(PageStore, Rows(PageStore))
  /\ overview = NoOverview
  /\ averages = <<>>
  /\ loading = TRUE
  /\ currentLocale = "en"
  /\ pending = {EffectRun("loadData", 0, 0, UNDEF, "en")}
  /\ last = [event |-> "none", shownFor |-> NoSelection]
  /\ followed = {"loadData"}

NextLoadData ==
  \/ SelectProvince
  \/ SelectDistrict
  \/ SelectItem
  \/ LoadDataDone
  \/ LoadDataFails

SpecLoadData == InitLoadData /\ [][NextLoadData]_vars

\* the page at mount: the three effects have started; the two filter effects are followed
InitReload ==
  /\ store = PageStore
  /\ resp = Idle
  /\ PageIdle
  /\ seen = NoneSeen
  /\ run = NoRun
  /\ HostIdle
  /\ provinceList = <<>>
  /\ items = <<>>
  /\ overview = NoOverview
  /\ averages = <<>>
  /\ loading = TRUE
  /\ currentLocale = "en"
  /\ pending = {EffectRun("loadFilters", 0, 0, UNDEF, "en"),
                EffectRun("loadFilteredItems", 0, 0, UNDEF, "en")}
  /\ last = [event |-> "none", shownFor |-> NoSelection]
  /\ followed = {"loadFilters", "loadFilteredItems"}

NextReload ==
  \/ SelectProvince
  \/ SelectDistrict
  \/ SelectItem
  \/ SwitchLocale
  \/ LoadFiltersDone
  \/ LoadFilteredItemsDone
  \/ FiltersFetchFails

SpecReload == InitReload /\ [][NextReload]_vars

-----------------------------------------------------------------------------
(* Properties of the aggregation engine, checked under SpecAggregate *)

\* the rows a predicate selects, written out term by term
Selected(pred) ==
  {i \in 1..Len(store) :
     /\ pred.province # UNDEF => store[i].admin1 = pred.province
     /\ pred.district # UNDEF => store[i].admin2 = pred.district
     /\ pred.commodity # UNDEF => store[i].commodity = pred.commodity}

RECURSIVE Total(_)
Total(I) ==
  IF I = {} THEN 0
  ELSE LET i == CHOOSE x \in I : TRUE
       IN (IF store[i].price.k = "num" THEN store[i].price.v ELSE 0) + Total(I \ {i})

\* the fraction a equals n / d
IsFraction(a, n, d) == a.k = "num" /\ a.n * d = n * a.d

Priced(I) == {i \in I : store[i].price.k # "null"}

IsMeanOfPriced(a, I) ==
  IF Priced(I) = {} THEN a.k = "null"
  ELSE IsFraction(a, Total(Priced(I)), Cardinality(Priced(I)))

(* C1: getOverview returns averagePrice = null (not 0, not NaN) whenever
   the predicate it built matches no observation. *)
C1_EmptyMatchAverageNull ==
  (resp.op = "getOverview" /\ Selected(resp.pred) = {})
     => resp.result.averagePrice.k = "null"

C1_Witness ==
  /\ resp.op = "getOverview"
  /\ store # <<>>
  /\ Selected(resp.pred) = {}
  /\ resp.result.averagePrice.k = "null"

(* C2 as stated: with at least one matching row, averagePrice is the sum of
   the coerced prices of all matching rows divided by the number of matching
   rows, a NULL or non-numeric price counting as 0. *)
C2_MeanOverAllMatching ==
  (resp.op = "getOverview" /\ Selected(resp.pred) # {})
     => IsFraction(resp.result.averagePrice, Total(Selected(resp.pred)),
                   Cardinality(Selected(resp.pred)))

(* C2 amended: with at least one matching row, averagePrice is the mean over
   the matching rows whose price is not NULL, a non-numeric price counting
   as 0; rows with a NULL price enter neither the sum nor the count, and
   averagePrice is null when every matching row has a NULL price. *)
C2_MeanOverPricedRows ==
  (resp.op = "getOverview" /\ Selected(resp.pred) # {})
     => IsMeanOfPriced(resp.result.averagePrice, Selected(resp.pred))

C2_Witness ==
  /\ resp.op = "getOverview"
  /\ \E i \in Selected(resp.pred) : store[i].price.k = "null"
  /\ \E i \in Selected(resp.pred) : store[i].price.k = "text"
  /\ \E i \in Selected(resp.pred) : store[i].price.k = "num"
  /\ resp.result.averagePrice = [k |-> "num", n |-> 50, d |-> 1]

AveragesOver(avgs, I) ==
  /\ \A k \in 1..Len(avgs) :
        LET G == {i \in I : store[i].admin1 = avgs[k].province}
        IN G # {} /\ IsMeanOfPriced(avgs[k].averagePrice, G)
  /\ \A i \in I : \E k \in 1..Len(avgs) : avgs[k].province = store[i].admin1
  /\ \A k, m \in 1..Len(avgs) : avgs[k].province = avgs[m].province => k = m

(* C3 as stated: the averages of an overview request are computed over the
   rows matching the request's full predicate (province, district, item):
   every listed province has a matching row, its averagePrice is the mean of
   its matching rows, a province without matching row is absent. *)
C3_AveragesOverFullPredicate ==
  resp.op = "GET /api/overview" => AveragesOver(resp.result.averages, Selected(resp.pred))

(* C3 amended: the averages of an overview request are computed over the
   rows matching the request's item term alone; the province and district of
   the request are not applied to them.  Every listed province (NULL for rows
   without province) has a row with that item, its averagePrice is the mean
   of those rows, and a province without such a row is absent. *)
C3_AveragesOverItemOnly ==
  resp.op = "GET /api/overview"
     => AveragesOver(resp.result.averages,
                     Selected([province |-> UNDEF, district |-> UNDEF,
                               commodity |-> resp.pred.commodity]))

C3_Witness ==
  /\ resp.op = "GET /api/overview"
  /\ resp.pred.province # UNDEF
  /\ resp.pred.commodity # UNDEF
  /\ \E k \in 1..Len(resp.result.averages) :
        resp.result.averages[k].province \notin {resp.pred.province, NULL}
  /\ \E i \in 1..Len(store) : store[i].commodity # resp.pred.commodity

(* C4 as stated: the list of getAveragesByProvince is strictly descending by
   averagePrice, also when two provinces have the same mean. *)
C4_StrictlyDescending ==
  resp.op = "getAveragesByProvince"
     => \A k \in 1..(Len(resp.result) - 1) :
           LET a == resp.result[k].averagePrice
               b == resp.result[k + 1].averagePrice
           IN a.k = "num" /\ (b.k = "null" \/ a.n * b.d > b.n * a.d)

(* C4 amended: the list of getAveragesByProvince is in non-increasing order
   of averagePrice: no entry has a smaller mean than the next one, provinces
   of equal mean are adjacent in either order, and entries whose mean is
   null come after all others. *)
C4_NonIncreasing ==
  resp.op = "getAveragesByProvince"
     => \A k \in 1..(Len(resp.result) - 1) :
           LET a == resp.result[k].averagePrice
               b == resp.result[k + 1].averagePrice
           IN b.k = "null" \/ (a.k = "num" /\ a.n * b.d >= b.n * a.d)

C4_Witness ==
  /\ resp.op = "getAveragesByProvince"
  /\ Len(resp.result) = 3
  /\ resp.result[1].averagePrice.k = "num"
  /\ resp.result[1].averagePrice = resp.result[2].averagePrice
  /\ resp.result[3].averagePrice # resp.result[2].averagePrice

-----------------------------------------------------------------------------
(* Properties of the catalog and of the filter resolution, checked under   *)
(* SpecCatalog                                                              *)

Catalog == getFiltersProvinces(store)

Resolving == {"getPriceRows", "getOverview", "getItemsByLocation"}

(* C5: the province list of getFilters is sorted ascending by name, has no
   duplicate name, no null and no empty-string name, and the entry at
   position k has id = k. *)
C5_ProvinceListClean ==
  resp.op = "getFilters"
     => LET ps == resp.result.provinces
        IN /\ \A k \in 1..Len(ps) : ps[k].id = k /\ ps[k].name # NULL /\ ps[k].name # ""
           /\ \A k, m \in 1..Len(ps) : k < m => Rank(ps[k].name) < Rank(ps[m].name)

(* C6: for every entry {id, name} of the province list, a call of
   getPriceRows, getOverview or getItemsByLocation with provinceId = id
   restricts its result to the observations whose province equals name. *)
C6_ProvinceRoundTrip ==
  (resp.op \in Resolving /\ resp.provinceId \in 1..Len(Catalog))
     => /\ resp.pred.province = Catalog[resp.provinceId].name
        /\ resp.op = "getPriceRows"
             => \A k \in 1..Len(resp.result) :
                   resp.result[k].province = Catalog[resp.provinceId].name

(* C7: for every province entry p and district entry d of p, the three
   functions called with (p.id, d.id) restrict to province = p.name and
   district = d.name; a districtId beyond the districts of p omits the
   district term and keeps the province term. *)
C7_DistrictScopedToProvince ==
  (resp.op \in Resolving /\ resp.provinceId \in 1..Len(Catalog) /\ resp.districtId # 0)
     => LET p == Catalog[resp.provinceId]
        IN /\ resp.pred.province = p.name
           /\ resp.districtId \in 1..Len(p.districts)
                => resp.pred.district = p.districts[resp.districtId].name
           /\ resp.districtId > Len(p.districts) => resp.pred.district = UNDEF

(* C8: with a provinceId larger than the number of catalog provinces, and
   any districtId and itemName, each of the three functions returns what the
   same call returns without provinceId. *)
C8_OutOfRangeProvinceIgnored ==
  (resp.op \in Resolving /\ resp.provinceId > Len(Catalog))
     => /\ resp.op = "getPriceRows"
             => resp.result = getPriceRows(store, 0, resp.districtId, resp.itemName, resp.limit)
        /\ resp.op = "getOverview"
             => resp.result = getOverview(store, 0, resp.districtId, resp.itemName)
        /\ resp.op = "getItemsByLocation"
             => resp.result \in getItemsByLocationResults(store, 0, resp.districtId)

(* C9: in every predicate built by the three functions a district term is
   present only together with a province term, and its value is a district
   that occurs with that province in the store. *)
C9_DistrictTermNeedsProvince ==
  (resp.op \in Resolving /\ resp.pred.district # UNDEF)
     => /\ resp.pred.province # UNDEF
        /\ \E i \in 1..Len(store) :
              store[i].admin1 = resp.pred.province /\ store[i].admin2 = resp.pred.district

-----------------------------------------------------------------------------
(* Properties of the trend deduplication, checked under SpecDedup *)

FoodOnly == provinceId = 0 /\ itemName \notin {NULL, UNDEF, ""}

\* rows i and j of prices fall into the same group under the current mode
SameGroup(i, j) ==
  /\ prices[i].item = prices[j].item
  /\ FoodOnly => prices[i].province = prices[j].province

Grouped == {i \in 1..Len(prices) : prices[i].item \notin {NULL, UNDEF, ""}}

\* the rows of the group of row i that have a non-zero numeric price
Qualifying(i) ==
  {j \in Grouped : SameGroup(i, j) /\ prices[j].price.k = "num" /\ prices[j].price.v # 0}

IsRepresentative(o, i) ==
  /\ i \in Qualifying(i)
  /\ o.id = prices[i].id
  /\ \A f \in DOMAIN prices[i] : o[f] = prices[i][f]
  /\ \A j \in Qualifying(i) : prices[j].price.v <= o.price.v
  /\ IF Qualifying(i) = {i}
     THEN o.previousPrice.k = "null"
     ELSE /\ o.previousPrice.k = "num"
          /\ \E j \in Qualifying(i) \ {i} :
                /\ prices[j].price = o.previousPrice
                /\ \A m \in Qualifying(i) \ {i} : prices[m].price.v <= prices[j].price.v

(* C10: in every grouping mode, the output row of a group is a row of that
   group whose price is the maximum over the group's rows with a non-zero
   numeric price, and its previousPrice is the second highest of those prices
   (equal to the highest on a tie, null when there is no second row); a row
   whose price is zero, non-numeric or missing is neither the representative
   nor the source of previousPrice. *)
C10_RepresentativeIsHighest ==
  /\ \A k \in 1..Len(deduplicatedPrices) :
        \E i \in Grouped : IsRepresentative(deduplicatedPrices[k], i)
  /\ \A i \in Grouped :
        Qualifying(i) # {}
          => \E k \in 1..Len(deduplicatedPrices) :
                \E j \in Qualifying(i) : IsRepresentative(deduplicatedPrices[k], j)

C10_Witness ==
  /\ provinceId = 1 /\ itemName = "Rice"
  /\ Len(prices) = 3
  /\ \E i, j, m \in 1..3 :
        /\ prices[i].item = "Rice" /\ prices[i].price = PNum(100)
        /\ prices[j].item = "Rice" /\ prices[j].price = PNum(150)
        /\ prices[m].item = "Rice" /\ prices[m].price = PNum(0)
  /\ Len(deduplicatedPrices) = 1
  /\ deduplicatedPrices[1].price = PNum(150)
  /\ deduplicatedPrices[1].previousPrice = PNum(100)

\* the row of prices an output row was copied from
SourceOf(o) == CHOOSE i \in 1..Len(prices) : prices[i].id = o.id

(* C11: for every output row, trend is "up" if its price is greater than
   previousPrice, "down" if less, "same" if equal; trend is null exactly
   when previousPrice is null, which is exactly when the group has a single
   qualifying row. *)
C11_TrendFollowsPreviousPrice ==
  \A k \in 1..Len(deduplicatedPrices) :
     LET o == deduplicatedPrices[k]
     IN /\ (o.trend = NULL) <=> (o.previousPrice.k = "null")
        /\ (o.previousPrice.k = "null") <=> (Cardinality(Qualifying(SourceOf(o))) = 1)
        /\ o.previousPrice.k = "num" =>
             /\ o.price.v > o.previousPrice.v => o.trend = "up"
             /\ o.price.v < o.previousPrice.v => o.trend = "down"
             /\ o.price.v = o.previousPrice.v => o.trend = "same"

C11_Witness ==
  /\ provinceId = 1
  /\ Len(deduplicatedPrices) = 2
  /\ \E k, m \in 1..2 :
        /\ deduplicatedPrices[k].trend = "up"
        /\ deduplicatedPrices[k].previousPrice.k = "num"
        /\ deduplicatedPrices[m].trend = NULL
        /\ deduplicatedPrices[m].previousPrice.k = "null"

GroupOf(i) == IF FoodOnly THEN <<prices[i].item, prices[i].province>> ELSE <<prices[i].item>>

OutputGroup(o) == IF FoodOnly THEN <<o.item, o.province>> ELSE <<o.item>>

(* C12: a group whose rows all have a zero, non-numeric or missing price
   produces no output row; every output row has a non-zero numeric price. *)
C12_NoRowWithoutNonZeroPrice ==
  /\ \A k \in 1..Len(deduplicatedPrices) :
        deduplicatedPrices[k].price.k = "num" /\ deduplicatedPrices[k].price.v # 0
  /\ \A i \in Grouped :
        Qualifying(i) = {}
          => \A k \in 1..Len(deduplicatedPrices) : OutputGroup(deduplicatedPrices[k]) # GroupOf(i)

C12_Witness ==
  /\ provinceId = 1
  /\ Len(prices) = 3
  /\ Len(deduplicatedPrices) = 1
  /\ \E i, j \in Grouped :
        /\ i # j
        /\ SameGroup(i, j)
        /\ Qualifying(i) = {}
        /\ prices[i].price.k = "num"
        /\ prices[j].price.k # "num"

(* C13: the mode follows the selection: no province and no item groups by
   item name, an item without province groups by item name and province, a
   province (with or without district or item) groups by item name.  The
   output has exactly one row per distinct key that has a qualifying row,
   and no two output rows share a key. *)
C13_OneRowPerKey ==
  /\ {OutputGroup(deduplicatedPrices[k]) : k \in 1..Len(deduplicatedPrices)}
        = {GroupOf(i) : i \in {j \in Grouped : Qualifying(j) # {}}}
  /\ \A k, m \in 1..Len(deduplicatedPrices) :
        OutputGroup(deduplicatedPrices[k]) = OutputGroup(deduplicatedPrices[m]) => k = m

C13_Witness ==
  /\ provinceId = 0 /\ itemName = "Rice"
  /\ Len(deduplicatedPrices) = 3
  /\ \E k, m \in 1..3 :
        /\ deduplicatedPrices[k].item = deduplicatedPrices[m].item
        /\ deduplicatedPrices[k].province # deduplicatedPrices[m].province

(* C14: in food-only mode the output is in non-increasing order of price,
   whatever the item and province names; in the other two modes it is in
   ascending order of item name, rows of equal item name in ascending order
   of province. *)
C14_OutputOrder ==
  \A k, m \in 1..Len(deduplicatedPrices) :
     k < m =>
       LET a == deduplicatedPrices[k]
           b == deduplicatedPrices[m]
       IN IF FoodOnly
          THEN a.price.v >= b.price.v
          ELSE \/ LocaleRank(a.item) < LocaleRank(b.item)
               \/ a.item = b.item /\ LocaleRank(a.province) <= LocaleRank(b.province)

C14_Witness ==
  /\ FoodOnly
  /\ Len(deduplicatedPrices) = 3
  /\ \E k, m \in 1..3 :
        /\ k < m
        /\ deduplicatedPrices[k].price.v > deduplicatedPrices[m].price.v
        /\ LocaleRank(deduplicatedPrices[k].item) > LocaleRank(deduplicatedPrices[m].item)

-----------------------------------------------------------------------------
(* Properties of the raw-row and overview queries, checked under SpecQuery *)

\* row i comes before row j: later date first, for equal dates larger rowid first
ComesBefore(i, j) ==
  \/ store[i].date > store[j].date
  \/ store[i].date = store[j].date /\ i > j

Smaller(a, b) == IF a < b THEN a ELSE b

(* C16: getPriceRows returns min(limit, number of matching rows) rows, limit
   defaulting to 200; every returned row is a row matching the built
   predicate; the rows are ordered by date descending and, for equal dates,
   by row id descending; every matching row that is not returned comes after
   all returned rows in that order. *)
C16_NewestRowsUpToLimit ==
  resp.op = "getPriceRows"
     => LET M == Selected(resp.pred)
            L == IF resp.limit = NoLimit THEN DefaultLimit ELSE resp.limit
            rows == resp.result
            ids == {rows[k].id : k \in 1..Len(rows)}
        IN /\ Len(rows) = Smaller(L, Cardinality(M))
           /\ \A k \in 1..Len(rows) :
                 /\ rows[k].id \in M
                 /\ rows[k].date = store[rows[k].id].date
                 /\ rows[k].item = store[rows[k].id].commodity
                 /\ rows[k].province = store[rows[k].id].admin1
           /\ \A k, m \in 1..Len(rows) : k < m => ComesBefore(rows[k].id, rows[m].id)
           /\ \A i \in M \ ids : \A k \in 1..Len(rows) : ComesBefore(rows[k].id, i)

C16_Witness ==
  /\ resp.op = "getPriceRows"
  /\ resp.limit = 2
  /\ resp.pred.province = "A"
  /\ Cardinality(Selected(resp.pred)) = 3
  /\ Len(resp.result) = 2
  /\ resp.result[1].date = resp.result[2].date
  /\ \E i \in Selected(resp.pred) : store[i].date < resp.result[2].date /\ i > resp.result[1].id

(* C17: getOverview: lastUpdated is the maximum date over the rows matching
   the predicate and null when none matches; totalItems is the number of
   distinct non-null item names among the matching rows; totalMarkets is the
   number of distinct market names among them; averagePrice is taken over
   the same rows. *)
C17_OverviewStatistics ==
  resp.op = "getOverview"
     => LET M == Selected(resp.pred)
            dates == {store[i].date : i \in M} \ {DateNull}
            o == resp.result
        IN /\ M = {} => o.lastUpdated = DateNull
           /\ dates # {} => o.lastUpdated \in dates /\ \A d \in dates : d <= o.lastUpdated
           /\ dates = {} => o.lastUpdated = DateNull
           /\ o.totalItems = Cardinality({store[i].commodity : i \in M} \ {NULL})
           /\ o.totalMarkets = Cardinality({store[i].market : i \in M} \ {NULL})
           /\ Priced(M) = {} => o.averagePrice = AvgNull
           /\ Priced(M) # {} => IsFraction(o.averagePrice, Total(Priced(M)), Cardinality(Priced(M)))

C17_Witness ==
  /\ resp.op = "getOverview"
  /\ resp.pred.province = "A"
  /\ Cardinality(Selected(resp.pred)) = 2
  /\ Len(store) = 3
  /\ \E i \in Selected(resp.pred) : store[i].commodity = NULL /\ store[i].date = 2
  /\ \E i \in Selected(resp.pred) : store[i].market = NULL /\ store[i].date = 1
  /\ resp.result.lastUpdated = 2
  /\ resp.result.totalItems = 1
  /\ resp.result.totalMarkets = 1

-----------------------------------------------------------------------------
(* Properties of the item catalog, checked under SpecItems and SpecFresh *)

Triple(i) == <<store[i].commodity, store[i].unit, store[i].category>>

\* the distinct (item, unit, category) triples of the rows I with an item name
Triples(I) == {Triple(i) : i \in {j \in I : store[j].commodity # NULL}}

EntryTriple(e) == <<e.name, e.unit, e.category>>

OneEntryPerTriple(listed, I) ==
  /\ {EntryTriple(listed[k]) : k \in 1..Len(listed)} = Triples(I)
  /\ Len(listed) = Cardinality(Triples(I))

InCategoryItemOrder(listed) ==
  \A k, m \in 1..Len(listed) :
     k < m => \/ Rank(listed[k].category) < Rank(listed[m].category)
              \/ /\ listed[k].category = listed[m].category
                 /\ Rank(listed[k].name) <= Rank(listed[m].name)

\* the smallest rowid among the rows I that carry the triple of entry e
IsFirstRowOf(id, e, I) ==
  /\ id \in I
  /\ Triple(id) = EntryTriple(e)
  /\ \A i \in I : Triple(i) = EntryTriple(e) => id <= i

(* C18, as stated: getFilters().items holds one entry per distinct (item,
   unit, category) triple with a non-null item name present in the store,
   sorted by (category, item), and the id of the entry at position k,
   counting from 1, is k. *)
C18_ItemIdIsPosition ==
  resp.op = "getFilters"
     => LET listed == resp.result.items
        IN /\ OneEntryPerTriple(listed, 1..Len(store))
           /\ InCategoryItemOrder(listed)
           /\ \A k \in 1..Len(listed) : listed[k].id = k

(* C18, amended: getFilters().items holds one entry per distinct (item, unit,
   category) triple with a non-null item name present in the store, sorted
   by (category, item), and the id of an entry is the smallest rowid among
   the rows of the store that carry its triple. *)
C18_ItemIdIsFirstRowid ==
  resp.op = "getFilters"
     => LET listed == resp.result.items
        IN /\ OneEntryPerTriple(listed, 1..Len(store))
           /\ InCategoryItemOrder(listed)
           /\ \A k \in 1..Len(listed) : IsFirstRowOf(listed[k].id, listed[k], 1..Len(store))

C18_Witness ==
  /\ resp.op = "getFilters"
  /\ Len(store) = 3
  /\ Len(resp.result.items) = 2
  /\ resp.result.items[1].id = 2
  /\ resp.result.items[2].id = 1
  /\ resp.result.items[1].name = "Rice"
  /\ resp.result.items[2].name = "Fish"

\* the name a positional id stands for in the catalog; an entry with an empty
\* name does not resolve
ResolvedProvince(pId) ==
  IF pId \in 1..Len(Catalog) /\ Catalog[pId].name # "" THEN Catalog[pId].name ELSE UNDEF

ResolvedDistrict(pId, dId) ==
  IF ResolvedProvince(pId) # UNDEF /\ dId \in 1..Len(Catalog[pId].districts)
  THEN IF Catalog[pId].districts[dId].name # "" THEN Catalog[pId].districts[dId].name ELSE UNDEF
  ELSE UNDEF

LocatedRows(pId, dId) ==
  {i \in 1..Len(store) :
     /\ ResolvedProvince(pId) # UNDEF => store[i].admin1 = ResolvedProvince(pId)
     /\ ResolvedDistrict(pId, dId) # UNDEF => store[i].admin2 = ResolvedDistrict(pId, dId)}

\* the same with every listed entry resolving, an empty name included
ListedProvince(pId) == IF pId \in 1..Len(Catalog) THEN Catalog[pId].name ELSE UNDEF

ListedDistrict(pId, dId) ==
  IF pId \in 1..Len(Catalog) /\ dId \in 1..Len(Catalog[pId].districts)
  THEN Catalog[pId].districts[dId].name
  ELSE UNDEF

ListedRows(pId, dId) ==
  {i \in 1..Len(store) :
     /\ ListedProvince(pId) # UNDEF => store[i].admin1 = ListedProvince(pId)
     /\ ListedDistrict(pId, dId) # UNDEF => store[i].admin2 = ListedDistrict(pId, dId)}

LocatedItems ==
  IF resp.op = "getItemsByLocation" THEN resp.result ELSE resp.result.items

(* C19: getItemsByLocation returns exactly the distinct (item, unit,
   category) triples of the rows whose province equals the resolved province
   and, when a district resolves, whose district equals the resolved
   district, in (category, item) order; with a districtId and no provinceId
   nothing is narrowed and the entries are those of the item list of
   getFilters.  The same holds for the items of GET /api/filters called
   with a province or a district.  A catalog entry with an empty name may
   count as resolving or as not resolving. *)
C19_ItemsOfLocation ==
  (\/ resp.op = "getItemsByLocation"
   \/ resp.op = "GET /api/filters" /\ (resp.provinceId # 0 \/ resp.districtId # 0))
     => LET listed == LocatedItems
        IN /\ \/ OneEntryPerTriple(listed, LocatedRows(resp.provinceId, resp.districtId))
              \/ OneEntryPerTriple(listed, ListedRows(resp.provinceId, resp.districtId))
           /\ InCategoryItemOrder(listed)
           /\ resp.provinceId = 0
                => /\ OneEntryPerTriple(listed, 1..Len(store))
                   /\ \A k \in 1..Len(listed) :
                         IsFirstRowOf(listed[k].id, listed[k], 1..Len(store))

CatalogOps == {"getFilters", "getItemsByLocation"}

ProvinceNames(provinces) == {provinces[k].name : k \in 1..Len(provinces)}

\* the same names and the same ids
SameCatalog(op, a, b) ==
  IF op = "getFilters"
  THEN a.provinces = b.provinces /\ Range(a.items) = Range(b.items)
  ELSE Range(a) = Range(b)

(* C15: what getFilters and getItemsByLocation return depends only on the
   store at the time of the call: the provinces and the item triples of the
   reply are those of the rows the store holds now; two calls with the same
   arguments and no data change in between return the same names and ids. *)
C15_CatalogDerivedPerCall ==
  /\ resp.op = "getFilters"
       => /\ ProvinceNames(resp.result.provinces)
               = {store[i].admin1 : i \in 1..Len(store)} \ {NULL}
          /\ \A k \in 1..Len(resp.result.provinces) :
                {d.name : d \in Range(resp.result.provinces[k].districts)}
                   = {store[i].admin2 : i \in {j \in 1..Len(store) :
                                                 store[j].admin1 = resp.result.provinces[k].name}}
                        \ {NULL}
          /\ OneEntryPerTriple(resp.result.items, 1..Len(store))
  /\ resp.op = "getItemsByLocation"
       => OneEntryPerTriple(resp.result, LocatedRows(resp.provinceId, resp.districtId))
  /\ (/\ resp.op \in CatalogOps
      /\ seen.reply.op = resp.op
      /\ seen.reply.provinceId = resp.provinceId
      /\ seen.reply.districtId = resp.districtId
      /\ seen.store = store)
       => SameCatalog(resp.op, resp.result, seen.reply.result)

C15_Witness ==
  /\ resp.op = "getFilters"
  /\ seen.reply.op = "getFilters"
  /\ Len(seen.store) = 1
  /\ Len(store) = 2
  /\ Len(seen.reply.result.provinces) = 1
  /\ Len(resp.result.provinces) = 2
  /\ Len(seen.reply.result.items) = 1
  /\ Len(resp.result.items) = 2

-----------------------------------------------------------------------------
(* Properties of store failures, checked under SpecFault *)

(* C20: when opening the store or a query fails during one of the five
   functions, the function ends there: the failure is the outcome the caller
   gets, nothing is returned, and the failing statement is not run again. *)
C20_FailureAbortsCall ==
  /\ run.status = "thrown"
       => /\ resp = Idle
          /\ run.step < Len(Statements(run.op))
          /\ run.executed = run.step + 1
  /\ run.status = "running" => resp = Idle /\ run.executed = run.step
  /\ run.status = "returned"
       => /\ run.executed = Len(Statements(run.op))
          /\ run.step = Len(Statements(run.op))
  /\ resp # Idle => run.status = "returned" /\ resp.op = run.op

C20_Witness ==
  /\ run.status = "thrown"
  /\ run.op = "getOverview"
  /\ Statements(run.op)[run.step + 1] = "totalMarkets"
  /\ run.opened
  /\ Len(store) = 2
  /\ resp = Idle

-----------------------------------------------------------------------------
(* Further properties of the trend deduplication, checked under SpecDedup *)

(* C29: the representative being the highest price of its group, no output
   row has trend "down": trend is "up", "same" or null, and previousPrice,
   when not null, is less than or equal to the price of the row. *)
C29_NeverDown ==
  \A k \in 1..Len(deduplicatedPrices) :
     LET o == deduplicatedPrices[k]
     IN /\ o.trend \in {"up", "same", NULL}
        /\ o.previousPrice.k = "num" => o.previousPrice.v <= o.price.v

C29_Witness ==
  /\ provinceId = 2
  /\ Len(prices) = 3
  /\ \A i \in 1..3 : Qualifying(i) = {1, 2, 3}
  /\ prices[1].price.v < prices[2].price.v
  /\ Len(deduplicatedPrices) = 1
  /\ deduplicatedPrices[1].trend = "same"
  /\ deduplicatedPrices[1].previousPrice = deduplicatedPrices[1].price

-----------------------------------------------------------------------------
(* Further properties of the queries, checked under SpecAggregate and SpecCatalog *)

(* C30: every entry returned by getAveragesByProvince names a province of
   the catalog, a non-null province listed by getFilters for the same store;
   observations with a null province form no entry. *)
C30_AveragesNameCatalogProvinces ==
  resp.op = "getAveragesByProvince"
     => \A k \in 1..Len(resp.result) :
           /\ resp.result[k].province # NULL
           /\ \E p \in 1..Len(Catalog) : Catalog[p].name = resp.result[k].province

(* C22: for every store and selection getPriceRows and getOverview build the
   same predicate, so that without an effective limit the rows returned by
   getPriceRows are the rows over which getOverview computes. *)
C22_SamePredicate ==
  /\ resp.op = "getPriceRows"
       => LET overviewPred ==
                getOverviewPredicate(store, resp.provinceId, resp.districtId, resp.itemName)
          IN /\ resp.pred = overviewPred
             /\ resp.limit = NoLimit
                  => {resp.result[k].id : k \in 1..Len(resp.result)} = Selected(overviewPred)
  /\ resp.op = "getOverview"
       => resp.pred
             = getPriceRowsPredicate(store, resp.provinceId, resp.districtId, resp.itemName)

-----------------------------------------------------------------------------
(* Properties of getDb, checked under SpecHandles *)

\* the store a locale string stands for
Effective(locale) == IF locale = "km" THEN "km" ELSE "en"

CallsFor(l) == {k \in 1..Len(calls) : Effective(calls[k].locale) = l}

(* C21: over any sequence of calls of getDb with any locale strings a handle
   is opened at most once per effective locale, "km" standing for the km
   store and every other value for the en store; the calls after the open
   return that handle; a call that fails because the file is missing caches
   nothing, so that a later call tries to open again. *)
C21_OneHandlePerLocale ==
  \A l \in Locales :
     /\ Cardinality({k \in CallsFor(l) : calls[k].opened}) <= 1
     /\ \A k \in CallsFor(l) :
           /\ calls[k].outcome = "returned"
                => /\ calls[k].handle # NoHandle
                   /\ calls[k].handle.path = l
                   /\ calls[k].handle = dbCache[l]
                   /\ \A m \in CallsFor(l) :
                         m > k => /\ calls[m].outcome = "returned"
                                  /\ calls[m].handle = calls[k].handle
                                  /\ ~calls[m].opened
           /\ calls[k].outcome = "thrown" => ~calls[k].opened
     /\ (\A k \in CallsFor(l) : calls[k].outcome = "thrown") => dbCache[l] = NoHandle

C21_Witness ==
  /\ Len(calls) = 3
  /\ calls[1].locale = "km" /\ calls[1].outcome = "thrown"
  /\ calls[2].locale = "km" /\ calls[2].outcome = "returned" /\ calls[2].opened
  /\ calls[3].locale = "fr" /\ calls[3].outcome = "returned" /\ calls[3].handle.path = "en"
  /\ "en" \notin dbFiles

-----------------------------------------------------------------------------
(* Properties of the endpoints under a locale, checked under SpecLocale *)

\* the database of a locale
StoreOf(locale) == IF locale = "km" THEN storeKm ELSE store

Endpoints == {"GET /api/filters", "GET /api/overview", "GET /api/prices"}

(* C23: for a request carrying locale L the filters, overview and prices
   endpoints all read the store of L: the catalog returned is the catalog of
   that store, and a province id of that catalog is resolved by the overview
   and prices endpoints to the name the catalog gives it. *)
C23_EndpointsReadLocaleStore ==
  resp.op \in Endpoints
     => LET cat == getFiltersProvinces(StoreOf(resp.locale))
        IN /\ resp.op = "GET /api/filters" => resp.result.provinces = cat
           /\ (resp.op # "GET /api/filters" /\ resp.provinceId \in 1..Len(cat))
                 => resp.pred.province = cat[resp.provinceId].name
           /\ resp.op = "GET /api/prices"
                 => \A k \in 1..Len(resp.result.data) :
                       resp.result.data[k] \in {ToPriceRow(StoreOf(resp.locale), i) :
                                                  i \in 1..Len(StoreOf(resp.locale))}

-----------------------------------------------------------------------------
(* Properties of the loadData effect, checked under SpecLoadData *)

LoadDataPending == {r \in pending : r.kind = "loadData"}

(* C24: once all fetches have completed, the stored prices, overview and
   averages are those of the response to the latest selection: a late
   response to an older selection does not overwrite them. *)
C24_LatestSelectionShown ==
  (LoadDataPending = {} /\ last.event = "ok")
     => /\ last.shownFor = Selection
        /\ prices = getPriceRows(store, provinceId, districtId, itemName,
                                 pricesRouteLimit(provinceId, districtId, itemName))

(* C26: whenever loading is false, no loadData fetch is in flight. *)
C26_LoadingCoversFetches ==
  loading = FALSE => LoadDataPending = {}

(* C27: when a fetch of a loadData run returns a non-OK status or throws,
   prices, overview and averages keep the values they had, and loading ends
   false; every run that ends sets loading to false. *)
C27_FailureKeepsData ==
  [][ (pending' # pending /\ pending' \subseteq pending)
        => /\ loading' = FALSE
           /\ last'.event \in {"not-ok", "throws"}
                => prices' = prices /\ overview' = overview /\ averages' = averages ]_vars

C27_Witness ==
  /\ last.event \in {"not-ok", "throws"}
  /\ loading = FALSE
  /\ pending = {}
  /\ prices # <<>>
  /\ last.shownFor # Selection

-----------------------------------------------------------------------------
(* Properties of the filter effects and the selects, checked under SpecReload *)

ReloadPending == {r \in pending : r.kind \in {"loadFilters", "loadFilteredItems"}}

ItemNames == {items[k].name : k \in 1..Len(items)}

(* C25: once the reload of the item list has completed (no filter fetch is
   in flight), the selected itemName is undefined or the name of an entry
   of the current items list, also when the item was picked while the
   reload was in flight. *)
C25_SelectedItemListed ==
  (ReloadPending = {} /\ last.event = "items-ok")
     => (itemName = UNDEF \/ itemName \in ItemNames)

(* C28: districtId is defined only if provinceId is defined; a change of
   the province (to another province or to none) leaves districtId
   undefined; a completed locale reload leaves provinceId, districtId and
   itemName undefined together. *)
C28_DistrictNeedsProvince ==
  /\ [](districtId # 0 => provinceId # 0)
  /\ [][ /\ provinceId' # provinceId => districtId' = 0
         /\ (\E r \in pending \ pending' : r.kind = "loadFilters") /\ last'.event = "filters-ok"
              => Selection' = NoSelection ]_vars

C28_Witness ==
  /\ last.event = "filters-ok"
  /\ currentLocale = "km"
  /\ Selection = NoSelection
  /\ \E r \in pending : r.kind = "loadFilteredItems" /\ r.provinceId # 0 /\ r.districtId # 0

====
